---------------------------- MODULE Spec2Model ----------------------------
(***************************************************************************)
(* Credential lifecycle and abuse-control gate of the booking API:         *)
(* the token codec and the two revocation caches (lib/jwt), the            *)
(* fixed-window rate limiter (lib/security), the refresh route and the     *)
(* gate of a protected route (api/bookings).                               *)
(*                                                                         *)
(* Time is counted in ticks of 7.5 minutes: the 15-minute durations of the *)
(* source are 2 ticks, 24 hours are 192 ticks and 7 days are 1344 ticks.   *)
(* A JWT is modelled by its signed content: two tokens with the same kind, *)
(* payload and issue time are the same string.                             *)
(***************************************************************************)
EXTENDS Integers, Sequences, FiniteSets, TLC

VARIABLES
    now,                      \* Date.now(), in ticks
    secretSet,                \* process.env.JWT_SECRET is defined
    allowedEnv,               \* process.env.ALLOWED_ORIGINS, comma-separated
    issued,                   \* token strings handed out to clients
    blacklistedTokens,        \* LRU cache of revoked access tokens
    blacklistedRefreshTokens, \* LRU cache of revoked refresh tokens
    rateLimitCache,           \* LRU cache key -> {count, resetTime}
    reqs,                     \* in-flight requests, one slot per connection
    last,                     \* history: the request answered last
    lastRate,                 \* history: the last rateLimit call
    epoch,                    \* history: per key, the calls of the running window
    afterA,                   \* history: <<t, o>>: o was access-revoked after t
    afterR,                   \* history: <<t, o>>: o was refresh-revoked after t
    rotated,                  \* history: refresh rotations that completed
    lastRevoke,               \* history: the last call of a blacklist function
    sessions,                 \* history: the generateTokenPair calls, in order
    callsAt                   \* history: the rateLimit calls made at each time

vars == <<now, secretSet, allowedEnv, issued, blacklistedTokens,
          blacklistedRefreshTokens, rateLimitCache, reqs, last, lastRate, epoch,
          afterA, afterR, rotated, lastRevoke, sessions, callsAt>>

---------------------------------------------------------------------------
(* Bounds of the model *)

MaxTime == 3

MaxIssued == 5

\* the token specification: its clock, and the tokens it has handed out
MaxTokTime == 2

MaxMinted == 4

\* the clock of the request specifications stops earlier
MaxReqTime == 1

\* the store specification: calls of rateLimit per key and window
MaxCalls == 2

\* the several-key specification: calls per window for each key but the
\* one followed to its limit
MaxOther == 1

\* the burst specification: its clock runs over three windows of a key
MaxBurstTime == 6

\* the session specification: generateTokenPair calls
MaxSessions == 2

\* the origin specification: entries of ALLOWED_ORIGINS
MaxEntries == 2

\* capacity of each revocation cache (max: 1000 in the source, scaled)
BlacklistMax == 2

\* capacity of the rate-limit cache (max: 10000 in the source, scaled)
RateCacheMax == 2

---------------------------------------------------------------------------
(* Program constants, in ticks *)

WindowMs == 2

RateTtl == 2

AccessExpiresIn == 2

RefreshExpiresIn == 1344

BlacklistTtl == 192

RefreshBlacklistTtl == 1344

RATE_LIMITS ==
    [auth   |-> [windowMs |-> WindowMs, max |-> 5],
     api    |-> [windowMs |-> WindowMs, max |-> 100],
     strict |-> [windowMs |-> WindowMs, max |-> 10]]

Users == {"u1", "u2"}

Email(u) == IF u = "u1" THEN "u1@x" ELSE "u2@x"

TokenIds == {1, 2}

---------------------------------------------------------------------------
(* lru-cache: an LRUCache is a sequence of entries, least recently used    *)
(* first.  Entries carry the time they were set (the start of their ttl).  *)

LruIndex(c, k) ==
    IF \E i \in 1..Len(c) : c[i].key = k
    THEN CHOOSE i \in 1..Len(c) : c[i].key = k
    ELSE 0

LruStale(e, ttl, t) == t - e.start > ttl

LruRemove(c, i) == SubSeq(c, 1, i - 1) \o SubSeq(c, i + 1, Len(c))

\* has(): true for a present, non-stale entry; never changes recency
LruHas(c, k, ttl, t) ==
    LET i == LruIndex(c, k) IN i # 0 /\ ~LruStale(c[i], ttl, t)

\* get(): a stale entry is deleted and undefined returned; a hit moves the
\* entry to the most recently used end
LruGet(c, k, ttl, t) ==
    LET i == LruIndex(c, k) IN
    IF i = 0 THEN [cache |-> c, found |-> FALSE, value |-> 0]
    ELSE IF LruStale(c[i], ttl, t)
         THEN [cache |-> LruRemove(c, i), found |-> FALSE, value |-> 0]
         ELSE [cache |-> Append(LruRemove(c, i), c[i]),
               found |-> TRUE, value |-> c[i].value]

\* a set() that never evicts
LruSet_NoEvict(c, k, v, max, t) ==
    LET i == LruIndex(c, k)
        e == [key |-> k, value |-> v, start |-> t]
    IN  IF i # 0 THEN Append(LruRemove(c, i), e) ELSE Append(c, e)

\* a set() that evicts for a new key when the cache is one short of full
LruSet_EvictsEarly(c, k, v, max, t) ==
    LET i == LruIndex(c, k)
        e == [key |-> k, value |-> v, start |-> t]
    IN  IF i # 0 THEN Append(LruRemove(c, i), e)
        ELSE IF Len(c) >= max - 1 /\ Len(c) > 0 THEN Append(Tail(c), e)
        ELSE Append(c, e)

\* set(): an existing key is updated and becomes most recently used with a
\* fresh ttl; a new key evicts the least recently used entry of a full cache
LruSet(c, k, v, max, t) ==
    LET i == LruIndex(c, k)
        e == [key |-> k, value |-> v, start |-> t]
    IN  IF i # 0 THEN Append(LruRemove(c, i), e)
        ELSE IF Len(c) >= max THEN Append(Tail(c), e)
        ELSE Append(c, e)

LruSize(c) == Len(c)

LruKeys(c) == {c[i].key : i \in 1..Len(c)}

---------------------------------------------------------------------------
(* Token codec *)

AccessToken(u, e, t) ==
    [kind |-> "access", userId |-> u, email |-> e, tokenId |-> 0, iat |-> t]

RefreshToken(u, id, t) ==
    [kind |-> "refresh", userId |-> u, email |-> "", tokenId |-> id, iat |-> t]

\* a string that is no JWT at all
Garbage ==
    [kind |-> "garbage", userId |-> "", email |-> "", tokenId |-> 0, iat |-> 0]

\* a generateAccessToken that signs the user id alone
generateAccessToken_NoEmail(u, e, t) == AccessToken(u, "", t)

\* jwt.sign(payload, JWT_SECRET, {expiresIn}): throws when the secret is unset
generateAccessToken(u, e, t) == AccessToken(u, e, t)

generateRefreshToken(u, id, t) == RefreshToken(u, id, t)

\* generateTokenPair: tokenId is Math.random(), here any member of TokenIds
generateTokenPair(u, e, id, t) ==
    [accessToken |-> generateAccessToken(u, e, t),
     refreshToken |-> generateRefreshToken(u, id, t)]

\* refresh tokens that live four times as long
ExpiresIn_LongRefresh(kind) ==
    IF kind = "access" THEN AccessExpiresIn ELSE 4 * RefreshExpiresIn

ExpiresIn(kind) == IF kind = "access" THEN AccessExpiresIn ELSE RefreshExpiresIn

\* jwt.verify(token, secret): structure and signature first, then expiry
JwtVerify(tok, kind, t) ==
    IF tok.kind # kind THEN "Malformed"
    ELSE IF t >= tok.iat + ExpiresIn(kind) THEN "Expired"
    ELSE "Ok"

\* the payload jwt.verify returns for an access token, as JWTPayload
JwtDecode(tok) == [userId |-> tok.userId, email |-> tok.email]

\* a verifyAccessToken that does not consult the revocation cache
verifyAccessToken_NoBlacklist(tok, bl, secret, t) ==
    IF ~secret THEN "ConfigError" ELSE JwtVerify(tok, "access", t)

verifyAccessToken(tok, bl, secret, t) ==
    IF ~secret THEN "ConfigError"
    ELSE IF LruHas(bl, tok, BlacklistTtl, t) THEN "Revoked"
    ELSE JwtVerify(tok, "access", t)

\* (JWT_REFRESH_SECRET is taken to be set)
verifyRefreshToken(tok, bl, t) ==
    IF LruHas(bl, tok, RefreshBlacklistTtl, t) THEN "Revoked"
    ELSE JwtVerify(tok, "refresh", t)

\* a set() that makes room by dropping the newest entry instead of the oldest
LruSetDropNewest(c, k, v, max, t) ==
    LET i == LruIndex(c, k)
        e == [key |-> k, value |-> v, start |-> t]
    IN  IF i # 0 THEN Append(LruRemove(c, i), e)
        ELSE IF Len(c) >= max THEN Append(SubSeq(c, 1, Len(c) - 1), e)
        ELSE Append(c, e)

blacklistToken_DropNewest(bl, tok, t) ==
    LruSetDropNewest(bl, tok, TRUE, BlacklistMax, t)

\* a blacklistToken that adds an entry at every call
blacklistToken_Appends(bl, tok, t) ==
    LET e == [key |-> tok, value |-> TRUE, start |-> t]
    IN  IF Len(bl) >= BlacklistMax THEN Append(Tail(bl), e) ELSE Append(bl, e)

blacklistToken(bl, tok, t) == LruSet(bl, tok, TRUE, BlacklistMax, t)

\* a blacklistRefreshToken that writes to a cache of one entry
blacklistRefreshToken_OneEntry(bl, tok, t) == LruSet(bl, tok, TRUE, 1, t)

blacklistRefreshToken(bl, tok, t) == LruSet(bl, tok, TRUE, BlacklistMax, t)

\* the strings "" and "   ", where a token is expected
EmptyString ==
    [kind |-> "empty", userId |-> "", email |-> "", tokenId |-> 0, iat |-> 0]

BlankString ==
    [kind |-> "blank", userId |-> "", email |-> "", tokenId |-> 0, iat |-> 0]

\* String.prototype.trim(): of a whitespace-only string the empty string is
\* left; the other strings of the model have no whitespace at their ends
Trim(str) == IF str = BlankString THEN EmptyString ELSE str

\* a string used as a condition: only the empty string is falsy
Truthy(str) == str # EmptyString

\* a blacklistTokenPair that tests its arguments without trimming them
blacklistTokenPair_NoTrim(blA, blR, accessToken, refreshToken, t) ==
    [access  |-> IF Truthy(accessToken)
                 THEN blacklistToken(blA, accessToken, t) ELSE blA,
     refresh |-> IF Truthy(refreshToken)
                 THEN blacklistRefreshToken(blR, refreshToken, t) ELSE blR]

\* blacklistTokenPair(accessToken, refreshToken): the two caches after it
blacklistTokenPair(blA, blR, accessToken, refreshToken, t) ==
    [access  |-> IF Truthy(accessToken) /\ Truthy(Trim(accessToken))
                 THEN blacklistToken(blA, accessToken, t) ELSE blA,
     refresh |-> IF Truthy(refreshToken) /\ Truthy(Trim(refreshToken))
                 THEN blacklistRefreshToken(blR, refreshToken, t) ELSE blR]

\* history kept beside a revocation: o was revoked after the latest
\* revocation of t, for every t revoked before
EverRevoked(after, bl) == LruKeys(bl) \cup {p[1] : p \in after}

AfterRevoke(after, bl, tok) ==
    {p \in after : p[1] # tok}
        \cup {<<k, tok>> : k \in EverRevoked(after, bl) \ {tok}}

OthersSince(after, tok) == {p[2] : p \in {q \in after : q[1] = tok}}

---------------------------------------------------------------------------
(* Rate limiter *)

Clients == {"c1", "c2"}

RateTypes == {"auth", "api", "strict"}

RateKey(type, ip) == <<type, ip>>

\* the (class, client) pairs of the model
RateInputs == RateTypes \X Clients

NoHeaders == [present |-> FALSE, limit |-> 0, remaining |-> 0, reset |-> 0,
              retryAfter |-> -1]

\* rateLimit with the limit test off by one: count > max
rateLimit_OffByOne(cache, type, ip, t) ==
    LET key   == RateKey(type, ip)
        limit == RATE_LIMITS[type]
        got   == LruGet(cache, key, RateTtl, t)
        current == got.value
    IN  IF ~got.found \/ current.resetTime < t
        THEN [cache |-> LruSet(got.cache, key,
                               [count |-> 1, resetTime |-> t + limit.windowMs],
                               RateCacheMax, t),
              success |-> TRUE, headers |-> NoHeaders]
        ELSE IF current.count > limit.max
        THEN [cache |-> got.cache, success |-> FALSE,
              headers |-> [present |-> TRUE, limit |-> limit.max,
                           remaining |-> 0, reset |-> current.resetTime,
                           retryAfter |-> current.resetTime - t]]
        ELSE [cache |-> LruSet(got.cache, key,
                               [count |-> current.count + 1,
                                resetTime |-> current.resetTime],
                               RateCacheMax, t),
              success |-> TRUE,
              headers |-> [present |-> TRUE, limit |-> limit.max,
                           remaining |-> limit.max - (current.count + 1),
                           reset |-> current.resetTime, retryAfter |-> -1]]

\* rateLimit that loses its increment: the stored count is written back as read
rateLimit_LostIncrement(cache, type, ip, t) ==
    LET key   == RateKey(type, ip)
        limit == RATE_LIMITS[type]
        got   == LruGet(cache, key, RateTtl, t)
        current == got.value
    IN  IF ~got.found \/ current.resetTime < t
        THEN [cache |-> LruSet(got.cache, key,
                               [count |-> 1, resetTime |-> t + limit.windowMs],
                               RateCacheMax, t),
              success |-> TRUE, headers |-> NoHeaders]
        ELSE IF current.count >= limit.max
        THEN [cache |-> got.cache, success |-> FALSE,
              headers |-> [present |-> TRUE, limit |-> limit.max,
                           remaining |-> 0, reset |-> current.resetTime,
                           retryAfter |-> current.resetTime - t]]
        ELSE [cache |-> LruSet(got.cache, key, current, RateCacheMax, t),
              success |-> TRUE,
              headers |-> [present |-> TRUE, limit |-> limit.max,
                           remaining |-> limit.max - (current.count + 1),
                           reset |-> current.resetTime, retryAfter |-> -1]]

\* rateLimit that keeps the old reset time when it opens a window again
rateLimit_KeepReset(cache, type, ip, t) ==
    LET key   == RateKey(type, ip)
        limit == RATE_LIMITS[type]
        got   == LruGet(cache, key, RateTtl, t)
        current == got.value
    IN  IF ~got.found \/ current.resetTime < t
        THEN [cache |-> LruSet(got.cache, key,
                               [count |-> 1,
                                resetTime |-> IF got.found
                                              THEN current.resetTime
                                              ELSE t + limit.windowMs],
                               RateCacheMax, t),
              success |-> TRUE, headers |-> NoHeaders]
        ELSE IF current.count >= limit.max
        THEN [cache |-> got.cache, success |-> FALSE,
              headers |-> [present |-> TRUE, limit |-> limit.max,
                           remaining |-> 0, reset |-> current.resetTime,
                           retryAfter |-> current.resetTime - t]]
        ELSE [cache |-> LruSet(got.cache, key,
                               [count |-> current.count + 1,
                                resetTime |-> current.resetTime],
                               RateCacheMax, t),
              success |-> TRUE,
              headers |-> [present |-> TRUE, limit |-> limit.max,
                           remaining |-> limit.max - (current.count + 1),
                           reset |-> current.resetTime, retryAfter |-> -1]]

\* a rateLimit that starts counting again from 1 when the count reaches max
rateLimit_WrapsAtMax(cache, type, ip, t) ==
    LET key   == RateKey(type, ip)
        limit == RATE_LIMITS[type]
        got   == LruGet(cache, key, RateTtl, t)
        current == got.value
        next  == IF current.count + 1 >= limit.max THEN 1 ELSE current.count + 1
    IN  IF ~got.found \/ current.resetTime < t
        THEN [cache |-> LruSet(got.cache, key,
                               [count |-> 1, resetTime |-> t + limit.windowMs],
                               RateCacheMax, t),
              success |-> TRUE, headers |-> NoHeaders]
        ELSE IF current.count >= limit.max
        THEN [cache |-> got.cache, success |-> FALSE,
              headers |-> [present |-> TRUE, limit |-> limit.max,
                           remaining |-> 0, reset |-> current.resetTime,
                           retryAfter |-> current.resetTime - t]]
        ELSE [cache |-> LruSet(got.cache, key,
                               [count |-> next, resetTime |-> current.resetTime],
                               RateCacheMax, t),
              success |-> TRUE,
              headers |-> [present |-> TRUE, limit |-> limit.max,
                           remaining |-> limit.max - next,
                           reset |-> current.resetTime, retryAfter |-> -1]]

\* a rateLimit that counts the requests it denies as well
rateLimit_CountDenied(cache, type, ip, t) ==
    LET key   == RateKey(type, ip)
        limit == RATE_LIMITS[type]
        got   == LruGet(cache, key, RateTtl, t)
        current == got.value
    IN  IF ~got.found \/ current.resetTime < t
        THEN [cache |-> LruSet(got.cache, key,
                               [count |-> 1, resetTime |-> t + limit.windowMs],
                               RateCacheMax, t),
              success |-> TRUE, headers |-> NoHeaders]
        ELSE IF current.count >= limit.max
        THEN [cache |-> LruSet(got.cache, key,
                               [count |-> current.count + 1,
                                resetTime |-> current.resetTime],
                               RateCacheMax, t),
              success |-> FALSE,
              headers |-> [present |-> TRUE, limit |-> limit.max,
                           remaining |-> 0, reset |-> current.resetTime,
                           retryAfter |-> current.resetTime - t]]
        ELSE [cache |-> LruSet(got.cache, key,
                               [count |-> current.count + 1,
                                resetTime |-> current.resetTime],
                               RateCacheMax, t),
              success |-> TRUE,
              headers |-> [present |-> TRUE, limit |-> limit.max,
                           remaining |-> limit.max - (current.count + 1),
                           reset |-> current.resetTime, retryAfter |-> -1]]

\* a rateLimit whose denials start the window again
rateLimit_DenialExtends(cache, type, ip, t) ==
    LET key   == RateKey(type, ip)
        limit == RATE_LIMITS[type]
        got   == LruGet(cache, key, RateTtl, t)
        current == got.value
    IN  IF ~got.found \/ current.resetTime < t
        THEN [cache |-> LruSet(got.cache, key,
                               [count |-> 1, resetTime |-> t + limit.windowMs],
                               RateCacheMax, t),
              success |-> TRUE, headers |-> NoHeaders]
        ELSE IF current.count >= limit.max
        THEN [cache |-> LruSet(got.cache, key,
                               [count |-> current.count,
                                resetTime |-> t + limit.windowMs],
                               RateCacheMax, t),
              success |-> FALSE,
              headers |-> [present |-> TRUE, limit |-> limit.max,
                           remaining |-> 0, reset |-> t + limit.windowMs,
                           retryAfter |-> limit.windowMs]]
        ELSE [cache |-> LruSet(got.cache, key,
                               [count |-> current.count + 1,
                                resetTime |-> current.resetTime],
                               RateCacheMax, t),
              success |-> TRUE,
              headers |-> [present |-> TRUE, limit |-> limit.max,
                           remaining |-> limit.max - (current.count + 1),
                           reset |-> current.resetTime, retryAfter |-> -1]]

\* rateLimit(request, type) at time t: the cache after the call and its result
rateLimit(cache, type, ip, t) ==
    LET key   == RateKey(type, ip)
        limit == RATE_LIMITS[type]
        got   == LruGet(cache, key, RateTtl, t)
        current == got.value
    IN  IF ~got.found \/ current.resetTime < t
        THEN [cache |-> LruSet(got.cache, key,
                               [count |-> 1, resetTime |-> t + limit.windowMs],
                               RateCacheMax, t),
              success |-> TRUE, headers |-> NoHeaders]
        ELSE IF current.count >= limit.max
        THEN [cache |-> got.cache, success |-> FALSE,
              headers |-> [present |-> TRUE, limit |-> limit.max,
                           remaining |-> 0, reset |-> current.resetTime,
                           retryAfter |-> current.resetTime - t]]
        ELSE [cache |-> LruSet(got.cache, key,
                               [count |-> current.count + 1,
                                resetTime |-> current.resetTime],
                               RateCacheMax, t),
              success |-> TRUE,
              headers |-> [present |-> TRUE, limit |-> limit.max,
                           remaining |-> limit.max - (current.count + 1),
                           reset |-> current.resetTime, retryAfter |-> -1]]

---------------------------------------------------------------------------
(* State *)

NoToken ==
    [kind |-> "none", userId |-> "", email |-> "", tokenId |-> 0, iat |-> 0]

\* tokens issued before this process started and still held by clients
OldAccess == AccessToken("u1", Email("u1"), -1)

OldRefresh == RefreshToken("u1", 1, 1 - RefreshExpiresIn)

OldTokens == {OldAccess, OldRefresh}

Procs == {1, 2}

\* a request slot: the request (route, origin, ip, token), where its handler
\* stands (pc), its response (status, body) and, as history, what the gate saw
\* when it examined the request
IdleReq ==
    [pc |-> "idle", route |-> "", origin |-> "none", ip |-> "", token |-> NoToken,
     status |-> 0, body |-> "",
     verdict |-> "",       \* what verifyAccess/RefreshToken returned, if called
     jwt |-> "",           \* signature and expiry of the token at that call
     listed |-> FALSE,     \* the token was in the revocation cache at that call
     user |-> "",          \* request.user.userId
     handler |-> FALSE,    \* the route's handler was invoked
     reused |-> FALSE,     \* the token had completed a rotation before
     again |-> FALSE,      \* ... and completed another one with this request
     few |-> FALSE,        \* fewer than a cache-full of revocations since then
     exhausted |-> FALSE,  \* the client's rate window was exhausted on arrival
     secHeaders |-> FALSE, \* the response carries SECURITY_HEADERS
     rlHeaders |-> FALSE,  \* the response carries the X-RateLimit headers
     event |-> ""]         \* the last logSecurityEvent made for the request

NoEntry == [found |-> FALSE, count |-> 0, resetTime |-> 0]

NoRate == [key |-> <<"", "">>, at |-> 0, before |-> NoEntry, success |-> FALSE,
           headers |-> NoHeaders, after |-> NoEntry]

NoEpoch == [reset |-> -1, calls |-> 0, allowed |-> 0, evicted |-> FALSE]

\* no rateLimit call at a time: the allowed calls and whether one was denied
NoCalls == [allowed |-> 0, denied |-> FALSE]

\* no blacklist function was called yet
NoRevoke == [op |-> "", access |-> NoToken, refresh |-> NoToken,
             beforeA |-> <<>>, beforeR |-> <<>>]

\* ALLOWED_ORIGINS is not set, or it is a string of comma-separated entries,
\* here the sequence of its entries
UnsetEnv == [set |-> FALSE, entries |-> <<>>]

InitState ==
    /\ now = 0
    /\ issued = OldTokens
    /\ blacklistedTokens = <<>>
    /\ blacklistedRefreshTokens = <<>>
    /\ rateLimitCache = <<>>
    /\ reqs = [p \in Procs |-> IdleReq]
    /\ last = IdleReq
    /\ lastRate = NoRate
    /\ epoch = [k \in RateInputs |-> NoEpoch]
    /\ afterA = {}
    /\ afterR = {}
    /\ rotated = {}
    /\ lastRevoke = NoRevoke
    /\ sessions = <<>>
    /\ callsAt = [t \in 0..MaxBurstTime |-> NoCalls]

InitCommon == InitState /\ allowedEnv = UnsetEnv

\* what a client can put in a token header: a token it was given, or junk
Presentable == issued \cup {Garbage}

\* the clock advances
Tick ==
    /\ now < MaxTime
    /\ now' = now + 1
    /\ UNCHANGED <<secretSet, allowedEnv, issued, blacklistedTokens,
                   blacklistedRefreshTokens, rateLimitCache, reqs, last, lastRate,
                   epoch, afterA, afterR, rotated,
                   lastRevoke, sessions, callsAt>>

---------------------------------------------------------------------------
(* A call of rateLimit by a route, with the history kept beside it *)

Min(a, b) == IF a < b THEN a ELSE b

EntryOf(c, k) ==
    LET i == LruIndex(c, k) IN
    IF i = 0 THEN NoEntry
    ELSE [found |-> TRUE, count |-> c[i].value.count,
          resetTime |-> c[i].value.resetTime]

\* epoch[k] follows the window of key k by the clock alone: it opens with the
\* first call after the previous one ran out and counts the calls and the
\* allowed calls until its reset time has passed (calls saturate at max + 2);
\* a window whose entry the cache evicted is marked and no longer counted
EpochAfter(ep, k, type, t, success) ==
    IF ep.reset < t
    THEN [reset |-> t + RATE_LIMITS[type].windowMs, calls |-> 1,
          allowed |-> IF success THEN 1 ELSE 0, evicted |-> FALSE]
    ELSE IF ep.evicted THEN ep
    ELSE [ep EXCEPT !.calls = Min(ep.calls + 1, RATE_LIMITS[type].max + 2),
                    !.allowed = ep.allowed + IF success THEN 1 ELSE 0]

CallRateLimit(type, ip, res) ==
    LET key == RateKey(type, ip)
        lost == LruKeys(rateLimitCache) \ LruKeys(res.cache)
    IN
    /\ rateLimitCache' = res.cache
    /\ lastRate' = [key |-> key, at |-> now,
                    before |-> EntryOf(rateLimitCache, key),
                    success |-> res.success, headers |-> res.headers,
                    after |-> EntryOf(res.cache, key)]
    /\ epoch' = [k \in DOMAIN epoch |->
                    IF k = key
                    THEN EpochAfter(epoch[k], k, type, now, res.success)
                    ELSE IF k \in lost /\ epoch[k].reset >= now
                    THEN [epoch[k] EXCEPT !.calls = 0, !.allowed = 0,
                                          !.evicted = TRUE]
                    ELSE epoch[k]]

\* no call was made yet for any other key than <<type, ip>>
OnlyKey(type, ip) ==
    \A k \in DOMAIN epoch : k # RateKey(type, ip) => epoch[k] = NoEpoch

\* a route calls rateLimit(request, type) for a request from ip; the calls
\* of one behaviour are all for one (class, client)
RateLimit(type, ip) ==
    /\ OnlyKey(type, ip)
    /\ CallRateLimit(type, ip, rateLimit(rateLimitCache, type, ip, now))
    /\ UNCHANGED <<now, secretSet, allowedEnv, issued, blacklistedTokens,
                   blacklistedRefreshTokens, reqs, last, afterA, afterR, rotated,
                   lastRevoke, sessions, callsAt>>

InitRL == InitCommon /\ secretSet = TRUE

NextRL ==
    \/ Tick
    \/ \E in \in RateInputs : RateLimit(in[1], in[2])

SpecRL == InitRL /\ [][NextRL]_vars

\* C5: of the calls made for one key within one window, exactly the first max
\* are allowed (5 for auth, 100 for api, 10 for strict) and every further one
\* is denied.
C5_FirstMaxAllowed ==
    \A k \in DOMAIN epoch :
        /\ epoch[k].allowed = Min(epoch[k].calls, RATE_LIMITS[k[1]].max)
        /\ (lastRate.key = k /\ epoch[k].calls > RATE_LIMITS[k[1]].max)
               => ~lastRate.success

\* the 101st call of class api within one window was just denied
C5_Witness ==
    \E k \in DOMAIN epoch :
        /\ k[1] = "api" /\ lastRate.key = k
        /\ epoch[k].calls = 101 /\ epoch[k].allowed = 100
        /\ ~lastRate.success

\* C6: a call made after the stored window's resetTime has passed is allowed
\* and leaves a window of count 1 and resetTime now + windowMs, whatever the
\* old window held.
C6_RolloverReplaces ==
    (lastRate.before.found /\ lastRate.before.resetTime < lastRate.at)
        => /\ lastRate.success
           /\ lastRate.after =
                  [found |-> TRUE, count |-> 1,
                   resetTime |-> lastRate.at
                                    + RATE_LIMITS[lastRate.key[1]].windowMs]
           /\ epoch[lastRate.key].calls = 1
           /\ epoch[lastRate.key].allowed = 1

\* the call that followed an exhausted window of class auth, after its reset
C6_Witness ==
    /\ lastRate.key[1] = "auth"
    /\ lastRate.before.found
    /\ lastRate.before.count = 5
    /\ lastRate.before.resetTime < lastRate.at
    /\ lastRate.success

---------------------------------------------------------------------------
(* Requests *)

\* the Origin header of a request: "none" when the request has none
Origins == {"none", "", "http://localhost:3000", "https://app.example",
            "https://other.example", "evil"}

\* process.env.ALLOWED_ORIGINS?.split(",") || ["http://localhost:3000"]:
\* the entries as written, untrimmed; the default only when the variable is
\* not set
allowedOrigins(env) ==
    IF ~env.set THEN {"http://localhost:3000"}
    ELSE {env.entries[i] : i \in 1..Len(env.entries)}

\* a validateOrigin that lets every request through when the allow-list has
\* an empty entry
validateOrigin_EmptyEntryAllowsAll(origin) ==
    \/ origin = "none" \/ origin = ""
    \/ origin \in allowedOrigins(allowedEnv)
    \/ "" \in allowedOrigins(allowedEnv)

\* validateOrigin: !origin (no header, or an empty one) passes; any other
\* value must be an entry of the allow-list
validateOrigin(origin) ==
    \/ origin = "none" \/ origin = ""
    \/ origin \in allowedOrigins(allowedEnv)

\* securityMiddleware: the status of the response it returns
securityMiddleware(origin) == IF validateOrigin(origin) THEN 200 ELSE 403

Respond(r, status, body) ==
    [r EXCEPT !.pc = "done", !.status = status, !.body = body]

\* slot p goes on as r: an answered request leaves its slot and is kept as
\* the last answer
Continue(p, r) ==
    IF r.pc = "done"
    THEN /\ reqs' = [reqs EXCEPT ![p] = IdleReq]
         /\ last' = r
    ELSE /\ reqs' = [reqs EXCEPT ![p] = r]
         /\ last' = last

\* the response with the event logged before it was returned and with the
\* X-RateLimit headers when the handler has set them on it
Answer(r, status, body, event, rl) ==
    [Respond(r, status, body) EXCEPT !.event = event, !.rlHeaders = rl]

\* a request as it reaches a route: middleware() has set SECURITY_HEADERS on
\* its pass-through response, which are sent with whatever the route returns,
\* unless middleware() answered 403 itself
NewReq(route, ip, origin, tok) ==
    [IdleReq EXCEPT !.route = route, !.ip = ip, !.origin = origin, !.token = tok,
                    !.secHeaders = validateOrigin(origin)]

\* a new request takes the first free slot (the slots are interchangeable)
\* by the history of the calls, the window of <<type, ip>> is running and max
\* calls were made in it
Spent(type, ip) ==
    LET ep == epoch[RateKey(type, ip)] IN
    /\ ep.reset >= now
    /\ ~ep.evicted
    /\ ep.calls >= RATE_LIMITS[type].max

Free(p) ==
    /\ reqs[p].pc = "idle"
    /\ \A q \in Procs : q < p => reqs[q].pc # "idle"

---------------------------------------------------------------------------
(* GET /api/auth/refresh *)

RotatedOld == {r.old : r \in rotated}

\* the handler up to its first await: origin, rate limit, x-refresh-token
\* header, verifyRefreshToken; then it awaits UserService.findUserById, holding
\* rateLimitResult (rlHeaders: its headers are defined)
RefreshBegin(p, ip, origin, tok) ==
    LET r0 == [NewReq("refresh", ip, origin, tok) EXCEPT
                  !.exhausted = Spent("auth", ip),
                  !.reused = tok \in RotatedOld,
                  !.few = Cardinality(OthersSince(afterR, tok)) < BlacklistMax]
        rl == rateLimit(rateLimitCache, "auth", ip, now)
        v  == verifyRefreshToken(tok, blacklistedRefreshTokens, now)
        r1 == [r0 EXCEPT !.verdict = v,
                         !.jwt = JwtVerify(tok, "refresh", now),
                         !.listed = tok \in LruKeys(blacklistedRefreshTokens)]
    IN
    /\ Free(p)
    /\ Cardinality(issued) <= MaxIssued
    /\ IF securityMiddleware(origin) # 200
       THEN /\ Continue(p, Answer(r0, 403, "Invalid origin", "", FALSE))
            /\ UNCHANGED <<rateLimitCache, lastRate, epoch>>
       ELSE /\ CallRateLimit("auth", ip, rl)
            /\ Continue(p,
                  IF ~rl.success
                  THEN Answer(r0, 429,
                         "Too many refresh attempts. Please try again later.",
                         "rate_limit_exceeded", FALSE)
                  ELSE IF tok = NoToken
                  THEN Answer(r0, 401, "Refresh token required",
                              "refresh_token_missing", FALSE)
                  ELSE IF v = "Revoked"
                  THEN Answer(r1, 401,
                         "Refresh token has been revoked. Please login again.",
                         "refresh_token_revoked", FALSE)
                  ELSE IF v = "Expired"
                  THEN Answer(r1, 401,
                         "Refresh token has expired. Please login again.",
                         "refresh_token_expired", FALSE)
                  ELSE IF v = "Malformed"
                  THEN Answer(r1, 401, "Invalid refresh token",
                              "refresh_token_invalid", FALSE)
                  ELSE [r1 EXCEPT !.pc = "awaitUser", !.user = tok.userId,
                                  !.rlHeaders = rl.headers.present])
    /\ UNCHANGED <<now, secretSet, allowedEnv, issued, blacklistedTokens,
                   blacklistedRefreshTokens, afterA, afterR, rotated,
                   lastRevoke, sessions, callsAt>>

\* findUserById found no user: 401; it threw: the outer catch answers 500
RefreshNoUser(p, threw) ==
    /\ reqs[p].pc = "awaitUser"
    /\ Continue(p, IF threw
                    THEN Answer(reqs[p], 500, "Internal server error",
                                "refresh_token_error", FALSE)
                    ELSE Answer(reqs[p], 401, "Invalid refresh token",
                                "refresh_user_not_found", FALSE))
    /\ UNCHANGED <<now, secretSet, allowedEnv, issued, blacklistedTokens,
                   blacklistedRefreshTokens, rateLimitCache, lastRate, epoch,
                   afterA, afterR, rotated,
                   lastRevoke, sessions, callsAt>>

\* findUserById returned the user: blacklistRefreshToken(old), then
\* generateTokenPair, which throws (500) when JWT_SECRET is unset
RefreshRotate(p, id) ==
    LET old  == reqs[p].token
        pair == generateTokenPair(reqs[p].user, Email(reqs[p].user), id, now)
    IN
    /\ reqs[p].pc = "awaitUser"
    /\ blacklistedRefreshTokens' =
           blacklistRefreshToken(blacklistedRefreshTokens, old, now)
    /\ afterR' = AfterRevoke(afterR, blacklistedRefreshTokens, old)
    /\ IF secretSet
       THEN /\ issued' = issued \cup {pair.accessToken, pair.refreshToken}
            /\ rotated' = rotated \cup {[old |-> old, new |-> pair.refreshToken]}
            /\ Continue(p, Answer([reqs[p] EXCEPT
                                       !.again = old \in RotatedOld],
                                   200, "tokens", "token_refreshed",
                                   reqs[p].rlHeaders))
       ELSE /\ UNCHANGED <<issued, rotated>>
            /\ Continue(p, Answer(reqs[p], 500, "Internal server error",
                                   "refresh_token_error", FALSE))
    /\ UNCHANGED <<now, secretSet, allowedEnv, blacklistedTokens, rateLimitCache, lastRate,
                   epoch, afterA,
                   lastRevoke, sessions, callsAt>>

InitRefresh == InitCommon /\ secretSet = TRUE

\* what a client can put in the x-refresh-token header: nothing, junk, or a
\* refresh token it was given
RefreshInputs ==
    {NoToken, Garbage} \cup {tok \in issued : tok.kind = "refresh"}

\* the Origin headers of the refresh requests: none, or a foreign one
RefreshOrigins == {"none", "evil"}

NextRefresh ==
    \/ (now < MaxReqTime /\ Tick)
    \/ \E p \in Procs, origin \in RefreshOrigins, tok \in RefreshInputs :
          RefreshBegin(p, "c1", origin, tok)
    \/ \E p \in Procs, threw \in BOOLEAN : RefreshNoUser(p, threw)
    \/ \E p \in Procs, id \in TokenIds : RefreshRotate(p, id)

SpecRefresh == InitRefresh /\ [][NextRefresh]_vars

InFlight == {reqs[p] : p \in {q \in Procs : reqs[q].pc # "idle"}}

\* the refresh requests whose token reached verifyRefreshToken
Examined == {r \in InFlight \cup {last} : r.route = "refresh" /\ r.verdict # ""}

RevokedAnswer(r) ==
    /\ r.pc = "done"
    /\ r.status = 401
    /\ r.body = "Refresh token has been revoked. Please login again."

\* C2: of the refresh requests that present the same valid refresh token while
\* one another is in flight, at most one returns a new token pair.  The
\* request answered last did not: it found the token unused when it verified
\* it (reused is false), yet the token had completed a rotation by the time
\* this request completed its own (again is true).
C2_SingleUseUnderConcurrency ==
    ~(last.route = "refresh" /\ last.status = 200 /\ last.again /\ ~last.reused)

C4_NoLostIncrement ==
    \A k \in DOMAIN epoch :
        ~epoch[k].evicted => epoch[k].allowed <= RATE_LIMITS[k[1]].max

\* five requests were let through, one of them is still in flight, and a
\* sixth, arriving meanwhile, was answered 429
C4_Witness ==
    /\ epoch[<<"auth", "c1">>].allowed = 5
    /\ epoch[<<"auth", "c1">>].calls = 6
    /\ \E p \in Procs : reqs[p].pc = "awaitUser"
    /\ last.status = 429

---------------------------------------------------------------------------
(* Token codec and revocation registry, called directly *)

\* a login or signup hands out generateAccessToken({userId, email})
GenerateAccessToken(u) ==
    /\ secretSet
    /\ Cardinality(issued) < MaxMinted
    /\ issued' = issued \cup {generateAccessToken(u, Email(u), now)}
    /\ UNCHANGED <<now, secretSet, allowedEnv, blacklistedTokens, blacklistedRefreshTokens,
                   rateLimitCache, reqs, last, lastRate, epoch, afterA, afterR,
                   rotated,
                   lastRevoke, sessions, callsAt>>

BlacklistToken(tok) ==
    /\ blacklistedTokens' = blacklistToken(blacklistedTokens, tok, now)
    /\ afterA' = AfterRevoke(afterA, blacklistedTokens, tok)
    /\ UNCHANGED <<now, secretSet, allowedEnv, issued, blacklistedRefreshTokens,
                   rateLimitCache, reqs, last, lastRate, epoch, afterR, rotated,
                   lastRevoke, sessions, callsAt>>

InitTok == InitCommon /\ secretSet = TRUE

NextTok ==
    \/ (now < MaxTokTime /\ Tick)
    \/ \E u \in Users : GenerateAccessToken(u)
    \/ \E tok \in Presentable : BlacklistToken(tok)

SpecTok == InitTok /\ [][NextTok]_vars

\* the access tokens handed out whose signature and expiry are valid now
ValidAccess ==
    {tok \in issued : tok.kind = "access" /\ JwtVerify(tok, "access", now) = "Ok"}

RevokedAccess == EverRevoked(afterA, blacklistedTokens)

C8_SignatureAndExpiryFirst ==
    \A tok \in Presentable :
        LET j == JwtVerify(tok, "access", now)
            v == verifyAccessToken(tok, blacklistedTokens, secretSet, now)
        IN  /\ j # "Ok" => v = j
            /\ v = "Revoked" => j = "Ok"

\* C1 as stated: once blacklistToken(token) was called, verifyAccessToken(token)
\* fails as revoked for as long as the token's signature and expiry are valid,
\* whatever was done with other tokens in between.
C1_RevokedStaysRevoked ==
    \A tok \in ValidAccess \cap RevokedAccess :
        verifyAccessToken(tok, blacklistedTokens, secretSet, now) = "Revoked"

\* C1 amended: once blacklistToken(token) was called, verifyAccessToken(token)
\* fails as revoked while the token's signature and expiry are valid, as long as
\* fewer distinct other strings than the revocation cache holds were revoked
\* since the latest revocation of the token.
C1_RevokedUntilEvicted ==
    \A tok \in ValidAccess \cap RevokedAccess :
        Cardinality(OthersSince(afterA, tok)) < BlacklistMax
            => verifyAccessToken(tok, blacklistedTokens, secretSet, now) = "Revoked"

\* a valid token, revoked, another token revoked after it, still rejected
C1_Witness ==
    \E tok \in ValidAccess \cap RevokedAccess :
        /\ OthersSince(afterA, tok) # {}
        /\ Cardinality(OthersSince(afterA, tok)) < BlacklistMax
        /\ verifyAccessToken(tok, blacklistedTokens, secretSet, now) = "Revoked"

---------------------------------------------------------------------------
(* GET /api/bookings *)

\* rateLimit would deny a call of this class for this client now
Exhausted(type, ip) == ~rateLimit(rateLimitCache, type, ip, now).success

\* an authenticateToken that tells the client when its token has expired
authenticateToken_TellsExpired(r, bl, secret, t) ==
    LET v  == verifyAccessToken(r.token, bl, secret, t)
        r1 == [r EXCEPT !.verdict = v,
                        !.jwt = JwtVerify(r.token, "access", t),
                        !.listed = LruHas(bl, r.token, BlacklistTtl, t)]
    IN  IF r.token = NoToken
        THEN Answer(r, 401, "Access token required",
                    "authentication_failed", FALSE)
        ELSE IF v = "Ok"
        THEN [r1 EXCEPT !.pc = "handler", !.user = r.token.userId,
                        !.event = "authentication_successful"]
        ELSE IF v = "Revoked"
        THEN Answer(r1, 401, "Token has been revoked. Please login again.",
                    "authentication_failed", FALSE)
        ELSE IF v = "Expired"
        THEN Answer(r1, 401, "Token has expired",
                    "authentication_failed", FALSE)
        ELSE Answer(r1, 401, "Invalid or expired token",
                    "authentication_failed", FALSE)

\* authenticateToken: the response it returns, or the request with the
\* verified claims; every error of verifyAccessToken other than
\* TokenBlacklistedError, the missing JWT_SECRET among them, is answered alike
authenticateToken(r, bl, secret, t) ==
    LET v  == verifyAccessToken(r.token, bl, secret, t)
        r1 == [r EXCEPT !.verdict = v,
                        !.jwt = JwtVerify(r.token, "access", t),
                        !.listed = LruHas(bl, r.token, BlacklistTtl, t)]
    IN  IF r.token = NoToken
        THEN Answer(r, 401, "Access token required",
                    "authentication_failed", FALSE)
        ELSE IF v = "Ok"
        THEN [r1 EXCEPT !.pc = "handler", !.user = r.token.userId,
                        !.event = "authentication_successful"]
        ELSE IF v = "Revoked"
        THEN Answer(r1, 401, "Token has been revoked. Please login again.",
                    "authentication_failed", FALSE)
        ELSE Answer(r1, 401, "Invalid or expired token",
                    "authentication_failed", FALSE)

\* GET up to its await: securityMiddleware, then authenticateToken
BookingsAuth(p, ip, origin, tok) ==
    LET r0 == [NewReq("bookings", ip, origin, tok) EXCEPT
                  !.exhausted = Exhausted("api", ip)]
    IN
    /\ Free(p)
    /\ Continue(p, IF securityMiddleware(origin) # 200
                    THEN Answer(r0, 403, "Invalid origin", "", FALSE)
                    ELSE authenticateToken(r0, blacklistedTokens, secretSet, now))
    /\ UNCHANGED <<now, secretSet, allowedEnv, issued, blacklistedTokens,
                   blacklistedRefreshTokens, rateLimitCache, lastRate, epoch,
                   afterA, afterR, rotated,
                   lastRevoke, sessions, callsAt>>

BookingOutcomes == {"ok", "badStatus", "dbError"}

\* GETHandler, called with request.user set: securityMiddleware again,
\* rateLimit(request, "api"), the status parameter, BookingService
BookingsHandler(p, outcome) ==
    LET r  == [reqs[p] EXCEPT !.handler = TRUE]
        rl == rateLimit(rateLimitCache, "api", r.ip, now)
    IN
    /\ reqs[p].pc = "handler"
    /\ IF securityMiddleware(r.origin) # 200
       THEN /\ Continue(p, Answer(r, 403, "Invalid origin", r.event, FALSE))
            /\ UNCHANGED <<rateLimitCache, lastRate, epoch>>
       ELSE /\ CallRateLimit("api", r.ip, rl)
            /\ Continue(p,
                  IF ~rl.success
                  THEN Answer(r, 429, "Too many requests. Please try again later.",
                              "rate_limit_exceeded", FALSE)
                  ELSE IF outcome = "badStatus"
                  THEN Answer(r, 400,
                              "Status parameter must be \"upcoming\" or \"completed\"",
                              "validation_error", FALSE)
                  ELSE IF outcome = "dbError"
                  THEN Answer(r, 500, "Internal server error",
                              "bookings_error", FALSE)
                  ELSE Answer(r, 200, "bookings", "bookings_retrieved",
                              rl.headers.present))
    /\ UNCHANGED <<now, secretSet, allowedEnv, issued, blacklistedTokens,
                   blacklistedRefreshTokens, afterA, afterR, rotated,
                   lastRevoke, sessions, callsAt>>

\* JWT_SECRET is read from the environment: set or not
InitGate == InitCommon /\ secretSet \in BOOLEAN

GateInputs == {NoToken} \cup Presentable

NextGate ==
    \/ (now < MaxReqTime /\ Tick)
    \/ \E tok \in {x \in issued : x.kind = "access"} : BlacklistToken(tok)
    \/ \E p \in Procs, origin \in RefreshOrigins, tok \in GateInputs :
          BookingsAuth(p, "c1", origin, tok)
    \/ \E p \in Procs, outcome \in BookingOutcomes : BookingsHandler(p, outcome)

SpecGate == InitGate /\ [][NextGate]_vars

GateRequests == {r \in InFlight \cup {last} : r.route = "bookings"}

\* the token of r was examined and found well signed under the access secret,
\* unexpired and absent from the access revocation cache, and request.user
\* carries its claims
PassedVerify(r) ==
    /\ secretSet
    /\ r.verdict = "Ok"
    /\ r.jwt = "Ok"
    /\ ~r.listed
    /\ r.user = r.token.userId

\* C7 as stated: the handler of the bookings route runs, with request.user
\* set to the token's claims, only for a request whose bearer token passed
\* verifyAccessToken in that request; every other request ends with 401 and
\* its handler is never invoked.
C7_HandlerOnlyIfVerified ==
    \A r \in GateRequests :
        /\ (r.pc = "handler" \/ r.handler) => PassedVerify(r)
        /\ (r.pc = "done" /\ ~PassedVerify(r)) => (r.status = 401 /\ ~r.handler)

\* C7 amended: the same, except that a request the origin check rejects ends
\* with 403 before its token is examined.
C7_HandlerOnlyIfVerifiedOr403 ==
    \A r \in GateRequests :
        /\ (r.pc = "handler" \/ r.handler) => PassedVerify(r)
        /\ (r.pc = "done" /\ ~PassedVerify(r)) =>
               /\ ~r.handler
               /\ \/ r.status = 401
                  \/ /\ r.status = 403
                     /\ ~validateOrigin(r.origin)
                     /\ r.verdict = ""

\* the handler answered a request whose token passed, while another request
\* whose token passed waits for its handler
C7_Witness ==
    /\ last.route = "bookings" /\ last.handler /\ last.status = 200
    /\ last.user = "u1" /\ PassedVerify(last)
    /\ \E p \in Procs : reqs[p].pc = "handler"

\* C9: the gate of the bookings route runs the origin check, then the rate
\* limit, then the token verification: a request of a client whose window is
\* exhausted on arrival, once past the origin check, is answered 429 and its
\* token is not verified.
C9_RateLimitBeforeVerify ==
    \A r \in GateRequests :
        (r.exhausted /\ validateOrigin(r.origin)) =>
            /\ r.pc = "done"
            /\ r.status = 429
            /\ r.verdict = ""

\* C10: with JWT_SECRET unset, a request whose token reaches verifyAccessToken
\* is answered 500, never 401 "Invalid or expired token".
C10_MissingSecretIs500 ==
    \A r \in GateRequests :
        r.verdict = "ConfigError" =>
            /\ r.pc = "done"
            /\ r.status = 500
            /\ r.body # "Invalid or expired token"

\* the requests authenticateToken answered itself
AuthAnswered ==
    {r \in GateRequests :
        r.pc = "done" /\ validateOrigin(r.origin) /\ ~r.handler}

---------------------------------------------------------------------------
(* The three stores under any sequence of revocations and rate-limit calls *)

BlacklistRefreshToken(tok) ==
    /\ blacklistedRefreshTokens' =
           blacklistRefreshToken(blacklistedRefreshTokens, tok, now)
    /\ afterR' = AfterRevoke(afterR, blacklistedRefreshTokens, tok)
    /\ UNCHANGED <<now, secretSet, allowedEnv, issued, blacklistedTokens, rateLimitCache,
                   reqs, last, lastRate, epoch, afterA, rotated,
                   lastRevoke, sessions, callsAt>>

\* a route calls rateLimit(request, type) for a request from ip
RateLimitAny(type, ip) ==
    /\ CallRateLimit(type, ip, rateLimit(rateLimitCache, type, ip, now))
    /\ UNCHANGED <<now, secretSet, allowedEnv, issued, blacklistedTokens,
                   blacklistedRefreshTokens, reqs, last, afterA, afterR, rotated,
                   lastRevoke, sessions, callsAt>>

\* the keys of the store specifications
StoreKeys == {<<"auth", "c1">>, <<"auth", "c2">>, <<"strict", "c1">>,
              <<"strict", "c2">>}

InitStores == InitCommon /\ secretSet = TRUE

\* the stores share nothing: every operation reads and writes its own cache
\* only.  The operations of one behaviour are all on one store.
UntouchedAccess == blacklistedTokens = <<>> /\ afterA = {}

UntouchedRefresh == blacklistedRefreshTokens = <<>> /\ afterR = {}

UntouchedRate == rateLimitCache = <<>> /\ lastRate = NoRate

NextStores ==
    \/ (now < MaxReqTime /\ Tick)
    \/ \E tok \in Presentable :
          UntouchedRefresh /\ UntouchedRate /\ BlacklistToken(tok)
    \/ \E tok \in Presentable :
          UntouchedAccess /\ UntouchedRate /\ BlacklistRefreshToken(tok)
    \/ \E k \in StoreKeys :
          /\ UntouchedAccess /\ UntouchedRefresh
          /\ epoch[k].calls < MaxCalls
          /\ EntryOf(rateLimitCache, k).count < MaxCalls
          /\ RateLimitAny(k[1], k[2])

SpecStores == InitStores /\ [][NextStores]_vars

\* the revoked strings whose entry the cache has dropped
Evicted(after, bl) == EverRevoked(after, bl) \ LruKeys(bl)

\* C12: each store holds at most its capacity, and an insert into a full
\* store succeeds by evicting: the string revoked last is in its cache, and an
\* allowed rateLimit call leaves its key's window in the store.
C12_StoresBounded ==
    /\ LruSize(blacklistedTokens) <= BlacklistMax
    /\ LruSize(blacklistedRefreshTokens) <= BlacklistMax
    /\ LruSize(rateLimitCache) <= RateCacheMax
    /\ \A tok \in EverRevoked(afterA, blacklistedTokens) :
          OthersSince(afterA, tok) = {} => tok \in LruKeys(blacklistedTokens)
    /\ \A tok \in EverRevoked(afterR, blacklistedRefreshTokens) :
          OthersSince(afterR, tok) = {}
              => tok \in LruKeys(blacklistedRefreshTokens)
    /\ lastRate.success => lastRate.key \in LruKeys(rateLimitCache)

\* the rate-limit store is full and has evicted a window for a new key
C12_Witness ==
    /\ LruSize(rateLimitCache) = RateCacheMax
    /\ \E k \in StoreKeys : epoch[k].evicted
    /\ lastRate.success /\ ~lastRate.before.found

---------------------------------------------------------------------------
(* The origin check *)

AllowEntries == {"", "http://localhost:3000", "https://app.example",
                 "https://other.example"}

EnvChoices ==
    {UnsetEnv} \cup
    {[set |-> TRUE, entries |-> e] :
        e \in UNION {[1..n -> AllowEntries] : n \in 1..MaxEntries}}

\* middleware(request) for a path under /api/: 403 without headers, or the
\* pass-through response with SECURITY_HEADERS set on it
Middleware(origin) ==
    LET r == NewReq("middleware", "c1", origin, NoToken) IN
    /\ last' = IF ~validateOrigin(origin)
               THEN [Respond(r, 403, "Invalid origin") EXCEPT
                        !.secHeaders = FALSE]
               ELSE [Respond(r, 200, "next") EXCEPT !.secHeaders = TRUE]
    /\ UNCHANGED <<now, secretSet, allowedEnv, issued, blacklistedTokens,
                   blacklistedRefreshTokens, rateLimitCache, reqs, lastRate,
                   epoch, afterA, afterR, rotated,
                   lastRevoke, sessions, callsAt>>

\* securityMiddleware(request), as the routes call it
SecurityMiddleware(origin) ==
    LET r == NewReq("securityMiddleware", "c1", origin, NoToken) IN
    /\ last' = IF securityMiddleware(origin) # 200
               THEN [Respond(r, 403, "Invalid origin") EXCEPT
                        !.secHeaders = FALSE]
               ELSE [Respond(r, 200, "next") EXCEPT !.secHeaders = TRUE]
    /\ UNCHANGED <<now, secretSet, allowedEnv, issued, blacklistedTokens,
                   blacklistedRefreshTokens, rateLimitCache, reqs, lastRate,
                   epoch, afterA, afterR, rotated,
                   lastRevoke, sessions, callsAt>>

InitOrigin ==
    /\ InitState
    /\ secretSet = TRUE
    /\ allowedEnv \in EnvChoices

NextOrigin ==
    \/ \E origin \in Origins : Middleware(origin)
    \/ \E origin \in Origins : SecurityMiddleware(origin)

SpecOrigin == InitOrigin /\ [][NextOrigin]_vars

OriginChecked == last.route \in {"middleware", "securityMiddleware"}

----------------------------------------------------------------------------
(* POST /api/auth/login and authMiddleware *)

\* POST up to its first await (request.json()): securityMiddleware, then
\* rateLimit(request, "auth"); the handler goes on holding rateLimitResult
LoginBegin(p, ip, origin) ==
    LET r0 == [NewReq("login", ip, origin, NoToken) EXCEPT
                  !.exhausted = Spent("auth", ip)]
        rl == rateLimit(rateLimitCache, "auth", ip, now)
    IN
    /\ Free(p)
    /\ IF securityMiddleware(origin) # 200
       THEN /\ Continue(p, Answer(r0, 403, "Invalid origin", "", FALSE))
            /\ UNCHANGED <<rateLimitCache, lastRate, epoch>>
       ELSE /\ CallRateLimit("auth", ip, rl)
            /\ Continue(p,
                  IF ~rl.success
                  THEN Answer(r0, 429,
                         "Too many login attempts. Please try again later.",
                         "rate_limit_exceeded", FALSE)
                  ELSE [r0 EXCEPT !.pc = "awaitBody",
                                  !.rlHeaders = rl.headers.present])
    /\ UNCHANGED <<now, secretSet, allowedEnv, issued, blacklistedTokens,
                   blacklistedRefreshTokens, afterA, afterR, rotated,
                   lastRevoke, sessions, callsAt>>

LoginOutcomes == {"invalidBody", "noUser", "badPassword", "threw", "ok"}

\* the rest of POST: loginSchema.parse, findUserByEmail, verifyPassword,
\* generateTokenPair (which throws when JWT_SECRET is unset), the response
\* with the rate limit headers when rateLimitResult has them; the catch
\* answers 400 to a ZodError and 500, without an event, to anything else
LoginFinish(p, outcome, u, id) ==
    LET r    == reqs[p]
        pair == generateTokenPair(u, Email(u), id, now)
    IN
    /\ r.pc = "awaitBody"
    /\ IF outcome = "ok" /\ secretSet
       THEN /\ Cardinality(issued) <= MaxIssued
            /\ issued' = issued \cup {pair.accessToken, pair.refreshToken}
            /\ Continue(p, Answer([r EXCEPT !.user = u], 200,
                                   "Login successful", "login_successful",
                                   r.rlHeaders))
       ELSE /\ UNCHANGED issued
            /\ Continue(p,
                  IF outcome = "invalidBody"
                  THEN Answer(r, 400, "Validation error",
                              "validation_error", FALSE)
                  ELSE IF outcome \in {"noUser", "badPassword"}
                  THEN Answer(r, 401, "Invalid email or password",
                              "login_failed", FALSE)
                  ELSE Answer(r, 500, "Internal server error", "", FALSE))
    /\ UNCHANGED <<now, secretSet, allowedEnv, blacklistedTokens,
                   blacklistedRefreshTokens, rateLimitCache, lastRate, epoch,
                   afterA, afterR, rotated,
                   lastRevoke, sessions, callsAt>>

\* authMiddleware(request): 401 without a Bearer header, else rateLimit of
\* the class of the path, 429 when it denies, else the pass-through response
AuthMiddleware(ip, bearer, isAuthEndpoint) ==
    LET r0   == [IdleReq EXCEPT !.route = "authMiddleware", !.ip = ip]
        type == IF isAuthEndpoint THEN "auth" ELSE "api"
        rl   == rateLimit(rateLimitCache, type, ip, now)
    IN
    /\ IF ~bearer
       THEN /\ last' = Answer(r0, 401, "Authentication required", "", FALSE)
            /\ UNCHANGED <<rateLimitCache, lastRate, epoch>>
       ELSE /\ CallRateLimit(type, ip, rl)
            /\ last' = IF ~rl.success
                       THEN Answer(r0, 429,
                              IF isAuthEndpoint
                              THEN "Too many authentication attempts"
                              ELSE "Too many requests",
                              "", FALSE)
                       ELSE Answer(r0, 200, "next", "", FALSE)
    /\ UNCHANGED <<now, secretSet, allowedEnv, issued, blacklistedTokens,
                   blacklistedRefreshTokens, reqs, afterA, afterR, rotated,
                   lastRevoke, sessions, callsAt>>

InitLogin == InitCommon /\ secretSet \in BOOLEAN

NextLogin ==
    \/ (now < MaxReqTime /\ Tick)
    \/ \E p \in Procs, origin \in RefreshOrigins : LoginBegin(p, "c1", origin)
    \/ \E p \in Procs, outcome \in LoginOutcomes, u \in Users, id \in TokenIds :
          LoginFinish(p, outcome, u, id)
    \/ \E bearer \in BOOLEAN : AuthMiddleware("c1", bearer, TRUE)

SpecLogin == InitLogin /\ [][NextLogin]_vars

----------------------------------------------------------------------------
(* Headers and events of the gate responses *)

\* the requests the gate refused
Refused(r) == r.pc = "done" /\ r.status \in {401, 403, 429}

\* C15: every response of the gate carries SECURITY_HEADERS, whatever the
\* outcome: the pass-through and the 403, 429 and 401 refusals alike.
C15_EveryResponseHasSecurityHeaders ==
    (last.route = "bookings" /\ last.pc = "done") => last.secHeaders

\* C16: every 429 sent because rateLimit denied the request carries the
\* X-RateLimit-Limit, X-RateLimit-Remaining, X-RateLimit-Reset and Retry-After
\* headers.
C16_Every429HasRateHeaders ==
    (last.route \in {"login", "authMiddleware"} /\ last.status = 429)
        => last.rlHeaders

\* C17: every refusal of the gate (403, 429, 401) has made a logSecurityEvent
\* before it returns; no refusal is silent.
C17_EveryRefusalLogged ==
    (last.route = "bookings" /\ Refused(last)) => last.event # ""

----------------------------------------------------------------------------
(* The result of rateLimit and the windows of several keys *)

\* a call of rateLimit was made
RateCalled == lastRate.key # NoRate.key

\* C18: every rateLimit call that allows the request reports the limit, the
\* remaining calls (max minus the count after this call) and the reset time,
\* the call that creates a fresh window included (remaining = max - 1).
C18_AllowedReportsRemaining ==
    (RateCalled /\ lastRate.success) =>
        /\ lastRate.headers.present
        /\ lastRate.headers.limit = RATE_LIMITS[lastRate.key[1]].max
        /\ lastRate.headers.remaining =
               RATE_LIMITS[lastRate.key[1]].max - lastRate.after.count
        /\ lastRate.headers.reset = lastRate.after.resetTime

\* the client whose calls are followed to the limit and the keys of the other
\* calls, which are few per window
FocusKey == <<"auth", "c1">>

\* the keys of the calls: one more than the store holds
WindowKeys == {FocusKey, <<"auth", "c2">>, <<"strict", "c1">>}

\* rateLimit(request, type) for a request from ip, any key at any time
RateLimitKeys(type, ip) ==
    LET key == RateKey(type, ip) IN
    /\ key # FocusKey =>
           /\ epoch[key].calls < MaxOther
           /\ EntryOf(rateLimitCache, key).count < MaxOther
    /\ CallRateLimit(type, ip, rateLimit(rateLimitCache, type, ip, now))
    /\ UNCHANGED <<now, secretSet, allowedEnv, issued, blacklistedTokens,
                   blacklistedRefreshTokens, reqs, last, afterA, afterR, rotated,
                   lastRevoke, sessions, callsAt>>

InitKeys == InitCommon /\ secretSet = TRUE

NextKeys ==
    \/ Tick
    \/ \E k \in WindowKeys : RateLimitKeys(k[1], k[2])

SpecKeys == InitKeys /\ [][NextKeys]_vars

\* the window stored for a key has not run out
Live(e) == e.found /\ e.resetTime >= now

\* the step keeps the window b of a key, as a: same reset time, count not less
Kept(b, a) == a.found /\ a.resetTime = b.resetTime /\ a.count >= b.count

\* the step is a call that opens a window for a key that is not in the full
\* store, and k, the least recently used key, is evicted for it
EvictedFor(k) ==
    /\ LruSize(rateLimitCache) >= RateCacheMax
    /\ rateLimitCache[1].key = k
    /\ lastRate'.key # k
    /\ ~lastRate'.before.found
    /\ lastRate'.after.count = 1
    /\ ~EntryOf(rateLimitCache', k).found

\* C19 as stated: for every key, the stored count never decreases while its
\* window is live and goes back to 1 only through rollover, never through any
\* other operation on the store, calls for other keys included.
C19_OnlyRolloverRestarts ==
    [][\A k \in WindowKeys :
          Live(EntryOf(rateLimitCache, k)) =>
              Kept(EntryOf(rateLimitCache, k), EntryOf(rateLimitCache', k))]_vars

\* C19 amended: the same, unless the key's entry is evicted from the full
\* store by a call that opens a window for a key not in it; the next call for
\* the evicted key then starts at count 1 within its window.
C19_OnlyRolloverOrEvictionRestarts ==
    [][\A k \in WindowKeys :
          Live(EntryOf(rateLimitCache, k)) =>
              \/ Kept(EntryOf(rateLimitCache, k), EntryOf(rateLimitCache', k))
              \/ EvictedFor(k)]_vars

\* a key counted up to its limit within its window while calls were made for
\* another key, and a key whose evicted window started again at 1
C19_Witness ==
    /\ epoch[FocusKey].reset >= now
    /\ ~epoch[FocusKey].evicted
    /\ EntryOf(rateLimitCache, FocusKey).count = RATE_LIMITS["auth"].max
    /\ \E k \in WindowKeys \ {FocusKey} :
          /\ epoch[k].evicted
          /\ epoch[k].reset >= now
          /\ EntryOf(rateLimitCache, k).count = 1

\* the entries of the store, whatever their order of use
Contents(c) == [k \in WindowKeys |-> EntryOf(c, k)]

\* C20: a rateLimit call that denies the request leaves the store unchanged
\* (the count is not incremented, the reset time is not moved, no other entry
\* changes) and reports remaining = 0 with that unchanged reset time.
C20_DenialLeavesStore ==
    /\ []((RateCalled /\ ~lastRate.success) =>
             /\ lastRate.after = lastRate.before
             /\ lastRate.headers.present
             /\ lastRate.headers.remaining = 0
             /\ lastRate.headers.reset = lastRate.before.resetTime)
    /\ [][~lastRate'.success =>
             Contents(rateLimitCache') = Contents(rateLimitCache)]_vars

\* a denied call for a key while the store holds the window of another key
C20_Witness ==
    /\ RateCalled
    /\ ~lastRate.success
    /\ lastRate.key = FocusKey
    /\ LruSize(rateLimitCache) = RateCacheMax

\* C21 as stated: a rateLimit call for a key reads and writes only that key's
\* window: it never changes the count or the reset time of the window of any
\* other key and never removes it.
C21_OtherKeysUntouched ==
    [][\A k \in WindowKeys :
          k # lastRate'.key =>
              EntryOf(rateLimitCache', k) = EntryOf(rateLimitCache, k)]_vars

\* C21 amended: the same, unless the store is full and the call opens a window
\* for a key that is not in it: the least recently used window is then
\* removed, and the next call for its key is allowed although it was exhausted.
C21_OtherKeysUntouchedOrEvicted ==
    [][\A k \in WindowKeys :
          k # lastRate'.key =>
              \/ EntryOf(rateLimitCache', k) = EntryOf(rateLimitCache, k)
              \/ EvictedFor(k)]_vars

\* one key is exhausted, in the store with its full count, and the call made
\* last, for another key, was allowed
C21_Witness ==
    /\ epoch[FocusKey].calls > RATE_LIMITS["auth"].max
    /\ epoch[FocusKey].reset >= now
    /\ EntryOf(rateLimitCache, FocusKey).count = RATE_LIMITS["auth"].max
    /\ lastRate.key # FocusKey
    /\ lastRate.success
    /\ lastRate.at = now

----------------------------------------------------------------------------
(* The blacklist functions called one after another, history beside them *)

\* the strings blacklistToken and blacklistRefreshToken are called with
RevokeInputs == {OldAccess, OldRefresh, Garbage}

\* the arguments of blacklistTokenPair: a token, "" or whitespace
PairAccess == {OldAccess, EmptyString, BlankString}

PairRefresh == {OldRefresh, EmptyString, BlankString}

Revoked(op, accessToken, refreshToken) ==
    [op |-> op, access |-> accessToken, refresh |-> refreshToken,
     beforeA |-> blacklistedTokens, beforeR |-> blacklistedRefreshTokens]

\* a blacklistToken call that writes to both caches
CallBlacklistToken_BothSets(tok) ==
    /\ blacklistedTokens' = blacklistToken(blacklistedTokens, tok, now)
    /\ blacklistedRefreshTokens' =
           blacklistRefreshToken(blacklistedRefreshTokens, tok, now)
    /\ lastRevoke' = Revoked("blacklistToken", tok, NoToken)
    /\ UNCHANGED <<now, secretSet, allowedEnv, issued, rateLimitCache, reqs,
                   last, lastRate, epoch, afterA, afterR, rotated, sessions,
                   callsAt>>

\* blacklistToken(tok)
CallBlacklistToken(tok) ==
    /\ blacklistedTokens' = blacklistToken(blacklistedTokens, tok, now)
    /\ lastRevoke' = Revoked("blacklistToken", tok, NoToken)
    /\ UNCHANGED <<now, secretSet, allowedEnv, issued, blacklistedRefreshTokens,
                   rateLimitCache, reqs, last, lastRate, epoch, afterA, afterR,
                   rotated, sessions, callsAt>>

\* blacklistRefreshToken(tok)
CallBlacklistRefreshToken(tok) ==
    /\ blacklistedRefreshTokens' =
           blacklistRefreshToken(blacklistedRefreshTokens, tok, now)
    /\ lastRevoke' = Revoked("blacklistRefreshToken", NoToken, tok)
    /\ UNCHANGED <<now, secretSet, allowedEnv, issued, blacklistedTokens,
                   rateLimitCache, reqs, last, lastRate, epoch, afterA, afterR,
                   rotated, sessions, callsAt>>

\* blacklistTokenPair(accessToken, refreshToken)
CallBlacklistTokenPair(accessToken, refreshToken) ==
    LET res == blacklistTokenPair(blacklistedTokens, blacklistedRefreshTokens,
                                  accessToken, refreshToken, now)
    IN
    /\ blacklistedTokens' = res.access
    /\ blacklistedRefreshTokens' = res.refresh
    /\ lastRevoke' = Revoked("blacklistTokenPair", accessToken, refreshToken)
    /\ UNCHANGED <<now, secretSet, allowedEnv, issued, rateLimitCache, reqs,
                   last, lastRate, epoch, afterA, afterR, rotated, sessions,
                   callsAt>>

InitRevoke == InitCommon /\ secretSet = TRUE

NextRevoke ==
    \/ (now < MaxReqTime /\ Tick)
    \/ \E tok \in RevokeInputs : CallBlacklistToken(tok)
    \/ \E tok \in RevokeInputs : CallBlacklistRefreshToken(tok)
    \/ \E a \in PairAccess, r \in PairRefresh : CallBlacklistTokenPair(a, r)

SpecRevoke == InitRevoke /\ [][NextRevoke]_vars

\* C22: the two revocation sets are independent: blacklistToken changes the
\* access-revoked set only and blacklistRefreshToken the refresh-revoked set
\* only, so a revocation in one class changes the result of verifying no token
\* of the other class.
C22_SetsIndependent ==
    /\ lastRevoke.op = "blacklistToken" =>
          /\ blacklistedRefreshTokens = lastRevoke.beforeR
          /\ \A tok \in RevokeInputs :
                verifyRefreshToken(tok, blacklistedRefreshTokens, now)
                    = verifyRefreshToken(tok, lastRevoke.beforeR, now)
    /\ lastRevoke.op = "blacklistRefreshToken" =>
          /\ blacklistedTokens = lastRevoke.beforeA
          /\ \A tok \in RevokeInputs :
                verifyAccessToken(tok, blacklistedTokens, secretSet, now)
                    = verifyAccessToken(tok, lastRevoke.beforeA, secretSet, now)

\* the refresh token itself was put in the full access-revoked set, and
\* verifyRefreshToken still accepts it
C22_Witness ==
    /\ lastRevoke.op = "blacklistToken"
    /\ lastRevoke.access = OldRefresh
    /\ LruSize(lastRevoke.beforeA) = BlacklistMax
    /\ OldRefresh \in LruKeys(blacklistedTokens)
    /\ verifyRefreshToken(OldRefresh, blacklistedRefreshTokens, now) = "Ok"

\* C23: blacklistTokenPair revokes each of its arguments that is a non-blank
\* string and skips each one that is empty or whitespace-only, independently
\* of the other; a blank argument adds no entry to either set.
C23_PairSkipsBlank ==
    lastRevoke.op = "blacklistTokenPair" =>
        /\ IF lastRevoke.access \in {EmptyString, BlankString}
           THEN blacklistedTokens = lastRevoke.beforeA
           ELSE /\ lastRevoke.access \in LruKeys(blacklistedTokens)
                /\ blacklistedTokens # lastRevoke.beforeA
                      \/ lastRevoke.access \in LruKeys(lastRevoke.beforeA)
        /\ IF lastRevoke.refresh \in {EmptyString, BlankString}
           THEN blacklistedRefreshTokens = lastRevoke.beforeR
           ELSE lastRevoke.refresh \in LruKeys(blacklistedRefreshTokens)
        /\ {EmptyString, BlankString} \cap LruKeys(blacklistedTokens)
              \subseteq LruKeys(lastRevoke.beforeA)
        /\ {EmptyString, BlankString} \cap LruKeys(blacklistedRefreshTokens)
              \subseteq LruKeys(lastRevoke.beforeR)

\* a whitespace-only access token was skipped and the refresh token revoked
C23_Witness ==
    /\ lastRevoke.op = "blacklistTokenPair"
    /\ lastRevoke.access = BlankString
    /\ lastRevoke.refresh = OldRefresh
    /\ lastRevoke.beforeA # <<>>
    /\ OldRefresh \notin LruKeys(lastRevoke.beforeR)
    /\ OldRefresh \in LruKeys(blacklistedRefreshTokens)

\* C24: revocation is idempotent: blacklistToken or blacklistRefreshToken
\* called with a token that is in the set already leaves the membership of the
\* set and its size as they were.
C24_RevocationIdempotent ==
    /\ (lastRevoke.op = "blacklistToken"
           /\ lastRevoke.access \in LruKeys(lastRevoke.beforeA)) =>
          /\ LruKeys(blacklistedTokens) = LruKeys(lastRevoke.beforeA)
          /\ LruSize(blacklistedTokens) = LruSize(lastRevoke.beforeA)
    /\ (lastRevoke.op = "blacklistRefreshToken"
           /\ lastRevoke.refresh \in LruKeys(lastRevoke.beforeR)) =>
          /\ LruKeys(blacklistedRefreshTokens) = LruKeys(lastRevoke.beforeR)
          /\ LruSize(blacklistedRefreshTokens) = LruSize(lastRevoke.beforeR)

\* the least recently used entry of the full set was revoked again, later
C24_Witness ==
    /\ lastRevoke.op = "blacklistToken"
    /\ LruSize(lastRevoke.beforeA) = BlacklistMax
    /\ lastRevoke.beforeA[1].key = lastRevoke.access
    /\ lastRevoke.beforeA[1].start < now
    /\ LruSize(blacklistedTokens) = BlacklistMax

----------------------------------------------------------------------------
(* One key over several windows *)

\* the clock advances, over three windows of a key
BurstTick ==
    /\ now < MaxBurstTime
    /\ now' = now + 1
    /\ UNCHANGED <<secretSet, allowedEnv, issued, blacklistedTokens,
                   blacklistedRefreshTokens, rateLimitCache, reqs, last,
                   lastRate, epoch, afterA, afterR, rotated, lastRevoke,
                   sessions, callsAt>>

\* rateLimit(request, type) for a request from ip, counted at its time
RateLimitAt(type, ip) ==
    LET res == rateLimit(rateLimitCache, type, ip, now) IN
    /\ CallRateLimit(type, ip, res)
    /\ callsAt' = [callsAt EXCEPT ![now] =
                      IF res.success
                      THEN [@ EXCEPT !.allowed = @ + 1]
                      ELSE [@ EXCEPT !.denied = TRUE]]
    /\ UNCHANGED <<now, secretSet, allowedEnv, issued, blacklistedTokens,
                   blacklistedRefreshTokens, reqs, last, afterA, afterR,
                   rotated, lastRevoke, sessions>>

InitBurst == InitCommon /\ secretSet = TRUE

NextBurst ==
    \/ BurstTick
    \/ RateLimitAt(FocusKey[1], FocusKey[2])

SpecBurst == InitBurst /\ [][NextBurst]_vars

NextLive ==
    \/ Tick
    \/ RateLimitAt(FocusKey[1], FocusKey[2])

\* the clock advances, and the client goes on calling
SpecLive ==
    /\ InitBurst
    /\ [][NextLive]_vars
    /\ WF_vars(Tick)
    /\ WF_vars(RateLimitAt(FocusKey[1], FocusKey[2]))

RECURSIVE AllowedIn(_, _)
\* the allowed calls made at the times from to .. to
AllowedIn(from, to) ==
    IF from > to \/ from > MaxBurstTime THEN 0
    ELSE callsAt[from].allowed + AllowedIn(from + 1, to)

\* C25: with the store below capacity, the allowed rateLimit calls for one
\* key in any time interval of length windowMs never exceed 2 x max.
C25_BurstAtMostTwiceMax ==
    \A from \in 0..MaxBurstTime :
        AllowedIn(from, from + RATE_LIMITS[FocusKey[1]].windowMs)
            <= 2 * RATE_LIMITS[FocusKey[1]].max

\* a third window is open, and an interval across the end of the first
\* window holds all the calls of the second and all but one of the first
C25_Witness ==
    /\ now = MaxBurstTime
    /\ callsAt[now].allowed >= 1
    /\ \E from \in 0..MaxBurstTime :
          AllowedIn(from, from + RATE_LIMITS[FocusKey[1]].windowMs)
              = 2 * RATE_LIMITS[FocusKey[1]].max - 1

\* the last call was denied / was allowed
Denied == RateCalled /\ ~lastRate.success

Allowed == RateCalled /\ lastRate.success

\* C26: a client that is being denied is allowed again: a call made once the
\* reset time of the window has passed is allowed, however many calls were
\* denied before it, and (time advancing and the client calling again) such a
\* call does come, for every window that ends within the time of the model.
C26_DeniedEventuallyAllowed ==
    /\ []((RateCalled /\ lastRate.before.found
              /\ lastRate.before.resetTime < lastRate.at) => lastRate.success)
    /\ [](Denied => lastRate.after = lastRate.before)
    /\ ((Denied /\ lastRate.before.resetTime < MaxTime) ~> Allowed)

\* a call was denied at two times of a window, and the call made last, after
\* the reset time of that window, was allowed
C26_Witness ==
    /\ Allowed
    /\ lastRate.before.found
    /\ lastRate.before.count = RATE_LIMITS[FocusKey[1]].max
    /\ lastRate.before.resetTime < lastRate.at
    /\ \E t \in 0..MaxBurstTime :
          /\ t + 1 <= lastRate.before.resetTime
          /\ callsAt[t].denied
          /\ callsAt[t + 1].denied

----------------------------------------------------------------------------
(* Sessions: token pairs handed out and revoked *)

\* generateTokenPair(userId, email) for a login, signup or refresh of user u
GenerateTokenPair(u, id) ==
    LET pair == generateTokenPair(u, Email(u), id, now) IN
    /\ secretSet
    /\ Len(sessions) < MaxSessions
    /\ issued' = issued \cup {pair.accessToken, pair.refreshToken}
    /\ sessions' = Append(sessions, [access |-> pair.accessToken,
                                      refresh |-> pair.refreshToken,
                                      out |-> FALSE])
    /\ UNCHANGED <<now, secretSet, allowedEnv, blacklistedTokens,
                   blacklistedRefreshTokens, rateLimitCache, reqs, last,
                   lastRate, epoch, afterA, afterR, rotated, lastRevoke,
                   callsAt>>

\* session i ends: blacklistTokenPair with the two tokens it was given
RevokeSession(i) ==
    LET res == blacklistTokenPair(blacklistedTokens, blacklistedRefreshTokens,
                                  sessions[i].access, sessions[i].refresh, now)
    IN
    /\ i \in 1..Len(sessions)
    /\ ~sessions[i].out
    /\ blacklistedTokens' = res.access
    /\ blacklistedRefreshTokens' = res.refresh
    /\ sessions' = [sessions EXCEPT ![i].out = TRUE]
    /\ UNCHANGED <<now, secretSet, allowedEnv, issued, rateLimitCache, reqs,
                   last, lastRate, epoch, afterA, afterR, rotated, lastRevoke,
                   callsAt>>

InitSessions == InitCommon /\ secretSet = TRUE

NextSessions ==
    \/ (now < MaxTokTime /\ Tick)
    \/ \E u \in Users, id \in TokenIds : GenerateTokenPair(u, id)
    \/ \E i \in 1..MaxSessions : RevokeSession(i)

SpecSessions == InitSessions /\ [][NextSessions]_vars

\* the entry e of a revocation cache with time to live ttl marks a token of
\* the cache's class that was revoked before its own expiry
MarksLive(e, kind) ==
    /\ e.key.kind = kind
    /\ e.start >= e.key.iat
    /\ e.start < e.key.iat + ExpiresIn(kind)

\* the entry is not stale at the last time at which jwt.verify accepts the token
OutlivesToken(e, kind, ttl) ==
    /\ JwtVerify(e.key, kind, e.key.iat + ExpiresIn(kind) - 1) = "Ok"
    /\ ~LruStale(e, ttl, e.key.iat + ExpiresIn(kind) - 1)

\* C27: with the default lifetimes a revocation entry never expires by its
\* ttl while the token it marks is unexpired: for every token revoked before
\* its own expiry, the entry lasts at least as long as the token.
C27_EntryOutlivesToken ==
    /\ \A i \in 1..Len(blacklistedTokens) :
          MarksLive(blacklistedTokens[i], "access") =>
              OutlivesToken(blacklistedTokens[i], "access", BlacklistTtl)
    /\ \A i \in 1..Len(blacklistedRefreshTokens) :
          MarksLive(blacklistedRefreshTokens[i], "refresh") =>
              OutlivesToken(blacklistedRefreshTokens[i], "refresh",
                            RefreshBlacklistTtl)

\* a refresh token revoked at the time it was issued, where entry and token
\* end together, and one revoked later
C27_Witness ==
    /\ Len(blacklistedRefreshTokens) = 2
    /\ MarksLive(blacklistedRefreshTokens[1], "refresh")
    /\ blacklistedRefreshTokens[1].start = blacklistedRefreshTokens[1].key.iat
    /\ MarksLive(blacklistedRefreshTokens[2], "refresh")
    /\ blacklistedRefreshTokens[2].start > blacklistedRefreshTokens[2].key.iat
    /\ \E i \in 1..Len(blacklistedTokens) :
          MarksLive(blacklistedTokens[i], "access")

\* C30: revoking the access token of one session never causes the access
\* token of a separately issued session to be rejected, two sessions of the
\* same user opened at the same time included.
C30_OtherSessionUnaffected ==
    \A j \in 1..Len(sessions) :
        (~sessions[j].out /\ JwtVerify(sessions[j].access, "access", now) = "Ok")
            => verifyAccessToken(sessions[j].access, blacklistedTokens,
                                 secretSet, now) = "Ok"

----------------------------------------------------------------------------
(* Refresh rotation when signing can fail *)

\* JWT_SECRET is set or not; JWT_REFRESH_SECRET is set
InitRotate == InitCommon /\ secretSet \in BOOLEAN

SpecRotate == InitRotate /\ [][NextRefresh]_vars

\* C28: refresh rotation is all-or-nothing: a refresh request either completes
\* the rotation (the presented token is revoked and a new pair returned) or
\* leaves both revocation sets unchanged; no refresh token is revoked without
\* a new pair having been returned for it.
C28_RevokedOnlyIfRotated ==
    /\ LruKeys(blacklistedRefreshTokens) \subseteq RotatedOld
    /\ blacklistedTokens = <<>>

----------------------------------------------------------------------------
(* POST /api/auth/signup, and the three routes of the auth class together *)

\* a signup that is counted in the window of the api class
SignupBegin_ApiClass(p, ip, origin) ==
    LET r0 == [NewReq("signup", ip, origin, NoToken) EXCEPT
                  !.exhausted = Spent("auth", ip)]
        rl == rateLimit(rateLimitCache, "api", ip, now)
    IN
    /\ Free(p)
    /\ IF securityMiddleware(origin) # 200
       THEN /\ Continue(p, Answer(r0, 403, "Invalid origin", "", FALSE))
            /\ UNCHANGED <<rateLimitCache, lastRate, epoch>>
       ELSE /\ CallRateLimit("api", ip, rl)
            /\ Continue(p,
                  IF ~rl.success
                  THEN Answer(r0, 429,
                         "Too many signup attempts. Please try again later.",
                         "rate_limit_exceeded", FALSE)
                  ELSE [r0 EXCEPT !.pc = "awaitSignup",
                                  !.rlHeaders = rl.headers.present])
    /\ UNCHANGED <<now, secretSet, allowedEnv, issued, blacklistedTokens,
                   blacklistedRefreshTokens, afterA, afterR, rotated,
                   lastRevoke, sessions, callsAt>>

\* POST (signup) up to its first await (request.json()): securityMiddleware,
\* then rateLimit(request, "auth")
SignupBegin(p, ip, origin) ==
    LET r0 == [NewReq("signup", ip, origin, NoToken) EXCEPT
                  !.exhausted = Spent("auth", ip)]
        rl == rateLimit(rateLimitCache, "auth", ip, now)
    IN
    /\ Free(p)
    /\ IF securityMiddleware(origin) # 200
       THEN /\ Continue(p, Answer(r0, 403, "Invalid origin", "", FALSE))
            /\ UNCHANGED <<rateLimitCache, lastRate, epoch>>
       ELSE /\ CallRateLimit("auth", ip, rl)
            /\ Continue(p,
                  IF ~rl.success
                  THEN Answer(r0, 429,
                         "Too many signup attempts. Please try again later.",
                         "rate_limit_exceeded", FALSE)
                  ELSE [r0 EXCEPT !.pc = "awaitSignup",
                                  !.rlHeaders = rl.headers.present])
    /\ UNCHANGED <<now, secretSet, allowedEnv, issued, blacklistedTokens,
                   blacklistedRefreshTokens, afterA, afterR, rotated,
                   lastRevoke, sessions, callsAt>>

SignupOutcomes == {"invalidBody", "exists", "threw", "ok"}

\* the rest of POST (signup): userRegistrationSchema.parse, createUser,
\* generateTokenPair, the 201 response with the rate limit headers when
\* rateLimitResult has them; the catch answers 400 to a ZodError, 409 to
\* "already exists" and 500, without an event, to anything else
SignupFinish(p, outcome, u, id) ==
    LET r    == reqs[p]
        pair == generateTokenPair(u, Email(u), id, now)
    IN
    /\ r.pc = "awaitSignup"
    /\ IF outcome = "ok" /\ secretSet
       THEN /\ Cardinality(issued) <= MaxIssued
            /\ issued' = issued \cup {pair.accessToken, pair.refreshToken}
            /\ Continue(p, Answer([r EXCEPT !.user = u], 201,
                                   "User created successfully",
                                   "signup_successful", r.rlHeaders))
       ELSE /\ UNCHANGED issued
            /\ Continue(p,
                  IF outcome = "invalidBody"
                  THEN Answer(r, 400, "Validation error",
                              "validation_error", FALSE)
                  ELSE IF outcome = "exists"
                  THEN Answer(r, 409, "User with this email already exists",
                              "signup_failed", FALSE)
                  ELSE Answer(r, 500, "Internal server error", "", FALSE))
    /\ UNCHANGED <<now, secretSet, allowedEnv, blacklistedTokens,
                   blacklistedRefreshTokens, rateLimitCache, lastRate, epoch,
                   afterA, afterR, rotated, lastRevoke, sessions, callsAt>>

InitAuth == InitCommon /\ secretSet = TRUE

\* the refresh tokens presented here: none, or the one held from before
AuthRefreshInputs == {NoToken, OldRefresh}

NextAuth ==
    \/ (now < MaxReqTime /\ Tick)
    \/ \E p \in Procs, origin \in RefreshOrigins : LoginBegin(p, "c1", origin)
    \/ \E p \in Procs, outcome \in LoginOutcomes :
          LoginFinish(p, outcome, "u1", 1)
    \/ \E p \in Procs, origin \in RefreshOrigins : SignupBegin(p, "c1", origin)
    \/ \E p \in Procs, outcome \in SignupOutcomes :
          SignupFinish(p, outcome, "u2", 2)
    \/ \E p \in Procs, origin \in RefreshOrigins, tok \in AuthRefreshInputs :
          RefreshBegin(p, "c1", origin, tok)
    \/ \E p \in Procs, threw \in BOOLEAN : RefreshNoUser(p, threw)
    \/ \E p \in Procs : RefreshRotate(p, 2)

SpecAuth == InitAuth /\ [][NextAuth]_vars

AuthRoutes == {"login", "signup", "refresh"}

\* the requests to the three routes, answered last or in flight
AuthRequests == {r \in InFlight \cup {last} : r.route \in AuthRoutes}

\* the request was answered 429 at the rate limit, before its body or its
\* refresh token was looked at
Limited(r) == r.pc = "done" /\ r.status = 429 /\ r.verdict = ""

\* C29 as stated: login, signup and refresh requests of one client count
\* against one window: after five of them in a window, the next login, signup
\* or refresh request of the client is answered 429 before its credentials or
\* its refresh token are examined.
C29_SharedAuthWindow ==
    \A r \in AuthRequests : r.exhausted => Limited(r)

\* C29 amended: the same for the requests that pass the origin check; a
\* request with a foreign Origin is answered 403 and is not counted.
C29_SharedAuthWindowOr403 ==
    \A r \in AuthRequests :
        r.exhausted =>
            \/ Limited(r)
            \/ /\ r.pc = "done"
               /\ r.status = 403
               /\ r.body = "Invalid origin"
               /\ ~validateOrigin(r.origin)

\* a signup has succeeded and a login is in flight, both counted in the
\* window, and a refresh request that arrived with its token when the window
\* was spent was answered 429, the token not examined
C29_Witness ==
    /\ \E tok \in issued : tok.userId = "u2"
    /\ \E p \in Procs : reqs[p].route = "login" /\ reqs[p].pc = "awaitBody"
    /\ last.route = "refresh"
    /\ last.token = OldRefresh
    /\ last.exhausted
    /\ Limited(last)
    /\ epoch[RateKey("auth", "c1")].reset >= now

====
